---- MODULE Spec2Model ----
(***************************************************************************)
(* Value normalization pipeline of src/format.rs:                          *)
(*   self-describing input --ParsedValue (untagged probe)-->               *)
(*   from_parsed_value --> Value --> extract_root_table.                   *)
(*                                                                         *)
(* Every tree node is a record whose tag field comes first (ct / pk /      *)
(* kind), so that two nodes are told apart by their tag before their       *)
(* payloads are looked at.                                                 *)
(***************************************************************************)
EXTENDS Integers, Sequences, FiniteSets, TLC

VARIABLES build, uri, entry, pc, content, parsed, value, root

vars == <<build, uri, entry, pc, content, parsed, value, root>>

(***************************************************************************)
(* Bounds of the explored inputs.                                          *)
(***************************************************************************)
\* largest number of entries of a generated map, table or sequence
MaxLen == 2

(***************************************************************************)
(* Integers.  A 64-bit quantity does not fit TLC's machine                 *)
(* integers, so an integer is a sign and a magnitude of four 16-bit limbs, *)
(* most significant first.  No arithmetic is done on them by the code      *)
(* under study: only range tests and decimal rendering.                    *)
(***************************************************************************)
Num(n, m) == [neg |-> n, mag |-> m]

ZeroMag == <<0, 0, 0, 0>>
I64MaxMag == <<32767, 65535, 65535, 65535>>
I64MinMag == <<32768, 0, 0, 0>>
U64MaxMag == <<65535, 65535, 65535, 65535>>

RECURSIVE MagLeqFrom(_, _, _)
MagLeqFrom(a, b, i) ==
    IF i > Len(a) THEN TRUE
    ELSE IF a[i] < b[i] THEN TRUE
    ELSE IF a[i] > b[i] THEN FALSE
    ELSE MagLeqFrom(a, b, i + 1)

MagLeq(a, b) == MagLeqFrom(a, b, 1)

\* an i64 visitor that takes every 64-bit pattern
FitsI64NoRangeCheck(n) == TRUE

\* i64's visitor: visit_i64 takes the value, visit_u64 takes it when it is
\* at most i64::MAX
FitsI64(n) == IF n.neg THEN MagLeq(n.mag, I64MinMag) ELSE MagLeq(n.mag, I64MaxMag)

\* u64's visitor: visit_u64 takes the value, visit_i64 takes it when it is >= 0
FitsU64(n) == ~n.neg

Digit == <<"0", "1", "2", "3", "4", "5", "6", "7", "8", "9">>

\* long division of a magnitude by ten: quotient limbs and remainder
Div10(m) ==
    LET c1 == m[1]
        c2 == (c1 % 10) * 65536 + m[2]
        c3 == (c2 % 10) * 65536 + m[3]
        c4 == (c3 % 10) * 65536 + m[4]
    IN  [q |-> <<c1 \div 10, c2 \div 10, c3 \div 10, c4 \div 10>>, r |-> c4 % 10]

RECURSIVE MagText(_)
MagText(m) == IF m = ZeroMag THEN "" ELSE MagText(Div10(m).q) \o Digit[Div10(m).r + 1]

\* Display of an integer: its decimal text
IntText(n) == IF n.mag = ZeroMag THEN "0" ELSE (IF n.neg THEN "-" ELSE "") \o MagText(n.mag)

RECURSIVE NatText(_)
NatText(k) == IF k < 10 THEN Digit[k + 1] ELSE NatText(k \div 10) \o Digit[(k % 10) + 1]

\* A float is kept in tenths: whole part and one decimal digit.  of is "f64"
\* for a float that was read as one, "int" for an integer cast to a float.
Flt(w, t) == [of |-> "f64", whole |-> w, tenth |-> t]

\* Display of a serde_yaml float number: always with a decimal point
FloatText(f) == NatText(f.whole) \o "." \o Digit[f.tenth + 1]

\* f64's visitor takes any integer as the nearest float: the value is re-typed
IntAsFloat(n) == [of |-> "int", whole |-> n, tenth |-> 0]

(***************************************************************************)
(* The self-describing input a format library hands to the probe (serde's  *)
(* buffered content).  Tag ct, payload cv.                                 *)
(***************************************************************************)
C(t, v) == [ct |-> t, cv |-> v]

CBool(b) == C("Bool", b)
CU64(m) == C("U64", Num(FALSE, m))
CI64(n) == C("I64", n)
CF64(f) == C("F64", f)
CStr(s) == C("Str", s)
CChar(c) == C("Char", c)
CUnit == C("Unit", <<>>)
CNone == C("None", <<>>)
CSome(x) == C("Some", <<x>>)
CSeq(xs) == C("Seq", xs)
CMap(es) == C("Map", es)
CDateTime(d) == C("DateTime", d)
\* an enum (a tagged YAML value): input the buffer does not take
CEnum == C("Enum", <<>>)

IsInt(c) == c.ct \in {"U64", "I64"}

\* char::to_string: the one-character string of a code point
CharText(c) ==
    CASE c = 120 -> "x"
      [] c = 55 -> "7"
      [] OTHER -> "?"

Pad2(k) == IF k < 10 THEN "0" \o NatText(k) ELSE NatText(k)

\* toml::value::Datetime::to_string of a local date
DateText(d) == NatText(d.year) \o "-" \o Pad2(d.month) \o "-" \o Pad2(d.day)

(***************************************************************************)
(* ParsedValue: tag pk, payload pv.                                        *)
(***************************************************************************)
P(k, v) == [pk |-> k, pv |-> v]

PNil == P("Nil", <<>>)
POption(o) == P("Option", o)

\* outcome of a deserialization: st is "ok", "err" (a deserialization
\* error is returned) or "overflow" (the call never returns: the recursion
\* does not end and the stack is exhausted)
Ok(v) == [st |-> "ok", out |-> v]
Err == [st |-> "err", out |-> <<>>]
Overflow == [st |-> "overflow", out |-> <<>>]

(***************************************************************************)
(* Map<String, _>: insertion-ordered pairs <<key, value>>, keys unique.    *)
(***************************************************************************)
Keys(m) == [i \in DOMAIN m |-> m[i][1]]

HasKey(m, k) == \E i \in DOMAIN m : m[i][1] = k

MapGet(m, k) == m[CHOOSE i \in DOMAIN m : m[i][1] = k][2]

\* insert: a key already present keeps its place and takes the new value
MapInsert(m, k, v) ==
    IF HasKey(m, k)
    THEN [i \in DOMAIN m |-> IF m[i][1] = k THEN <<k, v>> ELSE m[i]]
    ELSE Append(m, <<k, v>>)

RECURSIVE MapCollectFrom(_, _, _)
MapCollectFrom(acc, pairs, i) ==
    IF i > Len(pairs) THEN acc
    ELSE MapCollectFrom(MapInsert(acc, pairs[i][1], pairs[i][2]), pairs, i + 1)

\* FromIterator for Map: insert the pairs in iteration order
MapCollect(pairs) == MapCollectFrom(<<>>, pairs, 1)

UniqueKeys(m) == \A i, j \in DOMAIN m : m[i][1] = m[j][1] => i = j

(***************************************************************************)
(* The probe: deserializing an input into ParsedValue.  The derive tries   *)
(* the variants in declaration order against the buffered input and takes  *)
(* the first that deserializes.  b is the build: the cargo features yaml   *)
(* and toml, and whether the buffered input forwards 128-bit requests      *)
(* (int128; it depends on the serde release).                              *)
(***************************************************************************)
RECURSIVE Probe(_, _)
RECURSIVE YamlValue(_)
RECURSIVE Unbufferable(_)

\* the derive first buffers the whole input; the buffer refuses enum input
Unbufferable(c) ==
    CASE c.ct = "Enum" -> TRUE
      [] c.ct = "Some" -> Unbufferable(c.cv[1])
      [] c.ct = "Seq" -> \E i \in DOMAIN c.cv : Unbufferable(c.cv[i])
      [] c.ct = "Map" ->
            \E i \in DOMAIN c.cv : Unbufferable(c.cv[i][1]) \/ Unbufferable(c.cv[i][2])
      [] OTHER -> FALSE

\* ParsedValue::deserialize on a format's deserializer: buffer, then probe
Deserialize(b, c) == IF Unbufferable(c) THEN Err ELSE Probe(b, c)

\* the serde_yaml::Value a buffered input deserializes into, written in the
\* same vocabulary: a char becomes a string, an absent option null, a
\* present option its content
YamlValue(c) ==
    CASE c.ct = "Char" -> CStr(CharText(c.cv))
      [] c.ct = "None" -> CUnit
      [] c.ct = "Some" -> YamlValue(c.cv[1])
      [] c.ct = "Seq" -> CSeq([i \in DOMAIN c.cv |-> YamlValue(c.cv[i])])
      [] c.ct = "Map" ->
            CMap([i \in DOMAIN c.cv |-> <<YamlValue(c.cv[i][1]), YamlValue(c.cv[i][2])>>])
      [] OTHER -> c

\* enum ParsedString and the match on it: String, then Char, then (feature
\* toml) TomlDateTime
deserialize_parsed_string(b, c) ==
    IF c.ct = "Str" THEN Ok(c.cv)
    ELSE IF c.ct = "Char" THEN Ok(CharText(c.cv))
    ELSE IF b.toml /\ c.ct = "DateTime" THEN Ok(DateText(c.cv))
    ELSE Err

\* the re-keying of one entry of a serde_yaml::Mapping: Some(text) or None
YamlKey(k) ==
    IF IsInt(k) THEN <<IntText(k.cv)>>
    ELSE IF k.ct = "F64" THEN <<FloatText(k.cv)>>
    ELSE IF k.ct = "Str" THEN <<k.cv>>
    ELSE <<>>

\* the least index of a set of indices, or 0 when there is none
FirstBad(S) == IF S = {} THEN 0 ELSE CHOOSE i \in S : \A j \in S : i <= j

\* ParsedMap::Table: Map<String, ParsedValue> read entry by entry, the key
\* as a String and then the value by the probe
LiteralMap(b, es) ==
    LET r(i) == Probe(b, es[i][2])
        bad(i) == es[i][1].ct # "Str" \/ r(i).st # "ok"
        f == FirstBad({i \in DOMAIN es : bad(i)})
    IN  IF f = 0 THEN Ok(MapCollect([i \in DOMAIN es |-> <<es[i][1].cv, r(i).out>>]))
        ELSE IF es[f][1].ct # "Str" THEN Err
        ELSE r(f)

\* ParsedMap::YamlMap and its arm of the match: each entry is re-keyed and
\* its value re-probed, and the results are collected into a Map, stopping
\* at the first entry that gives an error
YamlMap(b, es) ==
    LET ys == YamlValue(CMap(es)).cv
        k(i) == YamlKey(ys[i][1])
        r(i) == Deserialize(b, ys[i][2])
        bad(i) == k(i) = <<>> \/ r(i).st # "ok"
        f == FirstBad({i \in DOMAIN ys : bad(i)})
    IN  IF f = 0 THEN Ok(MapCollect([i \in DOMAIN ys |-> <<k(i)[1], r(i).out>>]))
        ELSE IF r(f).st = "overflow" THEN Overflow
        ELSE Err

deserialize_parsed_map(b, c) ==
    IF c.ct # "Map" THEN Err
    ELSE LET lit == LiteralMap(b, c.cv)
         IN  IF lit.st # "err" THEN lit
             ELSE IF b.yaml THEN YamlMap(b, c.cv)
             ELSE Err

\* Vec<ParsedValue>: each element by the probe
ProbeSeq(b, xs) ==
    LET r(i) == Probe(b, xs[i])
        bad(i) == r(i).st # "ok"
        f == FirstBad({i \in DOMAIN xs : bad(i)})
    IN  IF f = 0 THEN Ok([i \in DOMAIN xs |-> r(i).out]) ELSE r(f)

\* Option<Box<Self>>: null and an absent option give None, a present option
\* probes its content, and any other input is handed to the probe again as
\* the content of a present option, which tries the same variants on the
\* same input: that recursion has no end
ProbeOption(b, c) ==
    IF c.ct \in {"None", "Unit"} THEN Ok(POption(<<>>))
    ELSE IF c.ct = "Some"
    THEN LET r == Probe(b, c.cv[1])
         IN  IF r.st = "ok" THEN Ok(POption(<<r.out>>)) ELSE r
    ELSE Overflow

\* the attempt of one variant on the buffered input
Attempt(b, v, c) ==
    CASE v = "Boolean" -> IF c.ct = "Bool" THEN Ok(P("Boolean", c.cv)) ELSE Err
      [] v = "I64" -> IF IsInt(c) /\ FitsI64(c.cv) THEN Ok(P("I64", c.cv)) ELSE Err
      [] v = "I128" -> IF b.int128 /\ IsInt(c) THEN Ok(P("I128", c.cv)) ELSE Err
      [] v = "U64" -> IF IsInt(c) /\ FitsU64(c.cv) THEN Ok(P("U64", c.cv)) ELSE Err
      [] v = "U128" ->
            IF b.int128 /\ IsInt(c) /\ FitsU64(c.cv) THEN Ok(P("U128", c.cv)) ELSE Err
      [] v = "Float" ->
            IF c.ct = "F64" THEN Ok(P("Float", c.cv))
            ELSE IF IsInt(c) THEN Ok(P("Float", IntAsFloat(c.cv)))
            ELSE Err
      [] v = "String" ->
            LET r == deserialize_parsed_string(b, c)
            IN  IF r.st = "ok" THEN Ok(P("String", r.out)) ELSE r
      [] v = "Table" ->
            LET r == deserialize_parsed_map(b, c)
            IN  IF r.st = "ok" THEN Ok(P("Table", r.out)) ELSE r
      [] v = "Array" ->
            IF c.ct # "Seq" THEN Err
            ELSE LET r == ProbeSeq(b, c.cv)
                 IN  IF r.st = "ok" THEN Ok(P("Array", r.out)) ELSE r
      [] v = "Option" -> ProbeOption(b, c)
      [] v = "Nil" -> Ok(PNil)

\* a declaration order with the unsigned variants ahead of the signed ones
ProbeOrderUnsignedFirst ==
    <<"Boolean", "U64", "U128", "I64", "I128", "Float", "String", "Table",
      "Array", "Option", "Nil">>

\* the variants of ParsedValue in declaration order
ProbeOrder ==
    <<"Boolean", "I64", "I128", "U64", "U128", "Float", "String", "Table",
      "Array", "Option", "Nil">>

\* the untagged dispatch: the first variant whose attempt does not return
\* an error; when every attempt returns an error, so does the probe
RECURSIVE ProbeFrom(_, _, _)
ProbeFrom(b, c, i) ==
    LET r == Attempt(b, ProbeOrder[i], c)
    IN  IF r.st = "err" /\ i < Len(ProbeOrder) THEN ProbeFrom(b, c, i + 1) ELSE r

Probe(b, c) == ProbeFrom(b, c, 1)

(***************************************************************************)
(* Value and ValueKind.  A ValueKind is a tag vk with a payload val; a     *)
(* Value is a kind with an optional origin (<<>> or <<label>>).            *)
(***************************************************************************)
VK(k, v) == [vk |-> k, val |-> v]

\* Value::new: the kind with a copy of the origin
ValueNew(origin, k) == [kind |-> k, origin |-> origin]

RECURSIVE from_parsed_value(_, _)

\* a table that keeps its entries in reverse
TableArmReversed(u, t) ==
    VK("Table",
       MapCollect([i \in DOMAIN t |->
                      <<t[Len(t) + 1 - i][1], from_parsed_value(u, t[Len(t) + 1 - i][2])>>]))

\* ParsedValue::Table: every value lowered, collected under its key
TableArm(u, t) ==
    VK("Table", MapCollect([i \in DOMAIN t |-> <<t[i][1], from_parsed_value(u, t[i][2])>>]))

\* an array that loses its first element
ArrayArmSkipFirst(u, a) ==
    VK("Array", [i \in 1..(Len(a) - 1) |-> from_parsed_value(u, a[i + 1])])

\* ParsedValue::Array: every element lowered, in order
ArrayArm(u, a) == VK("Array", [i \in DOMAIN a |-> from_parsed_value(u, a[i])])

\* an Option arm that does not look inside a present value
OptionArmNoUnwrap(u, o) == VK("Nil", <<>>)

\* ParsedValue::Option: the kind of the lowered content, or Nil
OptionArm(u, o) == IF o # <<>> THEN from_parsed_value(u, o[1]).kind ELSE VK("Nil", <<>>)

\* the match of from_parsed_value
KindOf(u, v) ==
    CASE v.pk = "Nil" -> VK("Nil", <<>>)
      [] v.pk = "String" -> VK("String", v.pv)
      [] v.pk = "I64" -> VK("I64", v.pv)
      [] v.pk = "I128" -> VK("I128", v.pv)
      [] v.pk = "U64" -> VK("U64", v.pv)
      [] v.pk = "U128" -> VK("U128", v.pv)
      [] v.pk = "Float" -> VK("Float", v.pv)
      [] v.pk = "Boolean" -> VK("Boolean", v.pv)
      [] v.pk = "Table" -> TableArm(u, v.pv)
      [] v.pk = "Array" -> ArrayArm(u, v.pv)
      [] v.pk = "Option" -> OptionArm(u, v.pv)

\* a lowering that gives the origin to the root alone
from_parsed_value_root_origin(u, v) == ValueNew(u, KindOf(<<>>, v))

from_parsed_value(u, v) == ValueNew(u, KindOf(u, v))

\* Unexpected: the variant named after what was found, with its payload
Unexpected(t, a) == [un |-> t, arg |-> a]

\* ConfigError::invalid_root: a type error that expected a map at the
\* root, with a copy of the origin and what was found instead
invalid_root(origin, unexpected) ==
    [error |-> "invalid_root", origin |-> origin, unexpected |-> unexpected]

Fail(e) == [st |-> "err", out |-> e]

\* the match of extract_root_table: the table, or what was found instead
RootMatch(k) ==
    CASE k.vk = "Table" -> Ok(k.val)
      [] k.vk = "Nil" -> Fail(Unexpected("Unit", <<>>))
      [] k.vk = "Array" -> Fail(Unexpected("Seq", <<>>))
      [] k.vk = "Boolean" -> Fail(Unexpected("Bool", k.val))
      [] k.vk = "I64" -> Fail(Unexpected("I64", k.val))
      [] k.vk = "I128" -> Fail(Unexpected("I128", k.val))
      [] k.vk = "U64" -> Fail(Unexpected("U64", k.val))
      [] k.vk = "U128" -> Fail(Unexpected("U128", k.val))
      [] k.vk = "Float" -> Fail(Unexpected("Float", k.val))
      [] k.vk = "String" -> Fail(Unexpected("Str", k.val))

\* a validation that takes an empty document for an empty table
extract_root_table_nil_ok(u, v) ==
    LET r == RootMatch(v.kind)
    IN  IF v.kind.vk = "Nil" THEN Ok(<<>>)
        ELSE IF r.st = "ok" THEN r ELSE Fail(invalid_root(u, r.out))

\* a validation that reports the origin of the value, not of the call
extract_root_table_value_origin(u, v) ==
    LET r == RootMatch(v.kind)
    IN  IF r.st = "ok" THEN r ELSE Fail(invalid_root(v.origin, r.out))

extract_root_table(u, v) ==
    LET r == RootMatch(v.kind)
    IN  IF r.st = "ok" THEN r ELSE Fail(invalid_root(u, r.out))

(***************************************************************************)
(* The explored inputs.                                                    *)
(***************************************************************************)
SeqsOver(S, n) == UNION {[1..k -> S] : k \in 0..n}

Distinct(xs) == \A i, j \in DOMAIN xs : xs[i] = xs[j] => i = j

\* pairs <<key, value>> with pairwise different keys
EntriesOver(K, V, n) == {es \in SeqsOver(K \X V, n) : Distinct(Keys(es))}

Origins == {<<>>, <<"settings.yaml">>}

Builds == [yaml : BOOLEAN, toml : BOOLEAN, int128 : BOOLEAN]

DefaultBuild == [yaml |-> TRUE, toml |-> TRUE, int128 |-> FALSE]

OneMag == <<0, 0, 0, 1>>
FortyTwoMag == <<0, 0, 0, 42>>

ScalarContent ==
    {CBool(TRUE), CBool(FALSE), CF64(Flt(1, 5)), CStr("x"), CStr("42"), CChar(120),
     CUnit, CNone, CEnum}
    \cup {CU64(m) : m \in {ZeroMag, OneMag, FortyTwoMag, I64MaxMag, I64MinMag, U64MaxMag}}
    \cup {CI64(n) : n \in {Num(FALSE, OneMag), Num(TRUE, OneMag), Num(TRUE, I64MinMag)}}

ElemContent == {CBool(TRUE), CU64(OneMag), CStr("x"), CUnit, CEnum}

KeyContent == {CStr("x"), CStr("42"), CU64(FortyTwoMag), CF64(Flt(1, 5)), CBool(TRUE)}

NestedContent ==
    (ElemContent \ {CEnum})
    \cup {CSeq(<<>>), CSeq(<<CBool(TRUE)>>), CSome(CU64(OneMag)),
          CMap(<<<<CStr("x"), CU64(OneMag)>>>>),
          CMap(<<<<CU64(FortyTwoMag), CUnit>>>>),
          CMap(<<<<CBool(TRUE), CStr("x")>>>>)}

FlatMaps == {CMap(es) : es \in EntriesOver(KeyContent, ElemContent, MaxLen)}

NestedMaps ==
    {CMap(es) : es \in EntriesOver({CStr("x"), CU64(FortyTwoMag)}, NestedContent, MaxLen)}

Arrays == {CSeq(xs) : xs \in SeqsOver(NestedContent, MaxLen)}

Somes == {CSome(c) : c \in ScalarContent \cup {CSome(CUnit), CSeq(<<CNone>>)}}

Documents == ScalarContent \cup FlatMaps \cup NestedMaps \cup Arrays \cup Somes

\* a date-time is input of the TOML library only
TomlDocuments ==
    LET d == CDateTime([year |-> 1979, month |-> 5, day |-> 27])
    IN  {d, CSome(d), CSeq(<<d>>), CMap(<<<<CStr("x"), d>>>>)}

PScalars ==
    {PNil, P("Boolean", TRUE), P("Boolean", FALSE), P("I64", Num(TRUE, OneMag)),
     P("I128", Num(TRUE, I64MinMag)), P("U64", Num(FALSE, OneMag)),
     P("U64", Num(FALSE, U64MaxMag)), P("U128", Num(FALSE, U64MaxMag)),
     P("Float", Flt(1, 5)), P("String", "x")}

PElems ==
    {PNil, P("Boolean", TRUE), P("U64", Num(FALSE, OneMag)), P("String", "x"),
     POption(<<>>), POption(<<P("U64", Num(FALSE, OneMag))>>),
     POption(<<POption(<<>>)>>),
     P("Array", <<>>), P("Array", <<POption(<<P("Boolean", TRUE)>>)>>),
     P("Table", <<<<"x", P("U64", Num(FALSE, OneMag))>>>>),
     P("Table", <<<<"x", POption(<<P("String", "x")>>)>>>>)}

PArrays == {P("Array", xs) : xs \in SeqsOver(PElems, MaxLen)}

PTables == {P("Table", es) : es \in EntriesOver({"x", "42"}, PElems, MaxLen)}

POptions ==
    {POption(<<t>>) :
        t \in PScalars \cup PElems
              \cup {POption(<<POption(<<P("Array", <<POption(<<>>)>>)>>)>>)}}

ParsedTrees == PScalars \cup PArrays \cup PTables \cup POptions \cup {POption(<<>>)}

VScalarKinds ==
    {VK("Nil", <<>>), VK("Boolean", TRUE), VK("Boolean", FALSE),
     VK("I64", Num(TRUE, OneMag)), VK("I128", Num(TRUE, I64MinMag)),
     VK("U64", Num(FALSE, U64MaxMag)), VK("U128", Num(FALSE, U64MaxMag)),
     VK("Float", Flt(1, 5)), VK("String", "x")}

VElems ==
    {ValueNew(o, k) :
        o \in Origins,
        k \in {VK("Boolean", TRUE), VK("U64", Num(FALSE, OneMag)), VK("String", "x")}}
    \cup {ValueNew(<<>>, VK("Array", <<>>)),
          ValueNew(<<>>, VK("Table", <<<<"x", ValueNew(<<"settings.yaml">>, VK("Nil", <<>>))>>>>))}

VTables == {VK("Table", es) : es \in EntriesOver({"x", "42"}, VElems, MaxLen)}

VArrays == {VK("Array", xs) : xs \in SeqsOver(VElems, MaxLen)}

Values == {ValueNew(o, k) : o \in Origins, k \in VScalarKinds \cup VTables \cup VArrays}

(***************************************************************************)
(* One call.  entry is where it starts: "parse" is a format adapter that   *)
(* deserializes a document, normalizes it and validates its root;          *)
(* "normalize" and "extract" are calls of the two public functions on      *)
(* values the caller built.                                                *)
(***************************************************************************)
NoContent == CUnit
NoParsed == PNil
NoValue == ValueNew(<<>>, VK("Nil", <<>>))
NoRoot == [st |-> "none", out |-> <<>>]

Init ==
    /\ uri \in Origins
    /\ root = NoRoot
    /\ \/ /\ entry = "parse"
          /\ pc = "content"
          /\ build \in Builds
          /\ content \in Documents \cup (IF build.toml THEN TomlDocuments ELSE {})
          /\ parsed = NoParsed
          /\ value = NoValue
       \/ /\ entry = "normalize"
          /\ pc = "parsed"
          /\ build = DefaultBuild
          /\ content = NoContent
          /\ parsed \in ParsedTrees
          /\ value = NoValue
       \/ /\ entry = "extract"
          /\ pc = "value"
          /\ build = DefaultBuild
          /\ content = NoContent
          /\ parsed = NoParsed
          /\ value \in Values

\* the format library deserializes the document into ParsedValue
DeserializeDocument ==
    /\ pc = "content"
    /\ LET r == Deserialize(build, content)
       IN  /\ parsed' = IF r.st = "ok" THEN r.out ELSE NoParsed
           /\ pc' = CASE r.st = "ok" -> "parsed"
                      [] r.st = "err" -> "failed"
                      [] r.st = "overflow" -> "crashed"
    /\ UNCHANGED <<build, uri, entry, content, value, root>>

Normalize ==
    /\ pc = "parsed"
    /\ value' = from_parsed_value(uri, parsed)
    /\ pc' = "value"
    /\ UNCHANGED <<build, uri, entry, content, parsed, root>>

ExtractRoot ==
    /\ pc = "value"
    /\ root' = extract_root_table(uri, value)
    /\ pc' = "done"
    /\ UNCHANGED <<build, uri, entry, content, parsed, value>>

Next == DeserializeDocument \/ Normalize \/ ExtractRoot

Spec == Init /\ [][Next]_vars

(***************************************************************************)
(* Properties.                                                             *)
(***************************************************************************)
Normalized == pc \in {"value", "done"} /\ entry # "extract"

\* C1: extract_root_table succeeds exactly when the kind of the value is
\* Table, and then returns the table the value holds: the same keys in the
\* same order, each with the same Value.
C1_RootTableReturned ==
    pc = "done" =>
        /\ (root.st = "ok") <=> (value.kind.vk = "Table")
        /\ root.st = "ok" => root.out = value.kind.val

C1_Witness ==
    /\ pc = "done"
    /\ entry = "extract"
    /\ root.st = "ok"
    /\ Len(root.out) = 2
    /\ root.out[1][1] = "x"
    /\ root.out[2][1] = "42"

\* what each kind other than Table is reported as
ReportedAs ==
    [Nil |-> "Unit", Array |-> "Seq", Boolean |-> "Bool", I64 |-> "I64", I128 |-> "I128",
     U64 |-> "U64", U128 |-> "U128", Float |-> "Float", String |-> "Str"]

\* C2: a value of any kind but Table fails with a root error that names the
\* kind found (for a scalar, with the scalar) and carries the origin given
\* to the call, absent when none was given.
C2_RootErrorNamesKind ==
    (pc = "done" /\ value.kind.vk # "Table") =>
        /\ root.st = "err"
        /\ root.out.error = "invalid_root"
        /\ root.out.origin = uri
        /\ root.out.unexpected.un = ReportedAs[value.kind.vk]
        /\ value.kind.vk \notin {"Nil", "Array"} =>
              root.out.unexpected.arg = value.kind.val

C2_Witness ==
    /\ pc = "done"
    /\ value.kind.vk = "Boolean"
    /\ value.origin = <<>>
    /\ uri = <<"settings.yaml">>
    /\ root.st = "err"
    /\ root.out.unexpected.un = "Bool"

RECURSIVE EveryOrigin(_, _)
\* every node of a Value tree has origin o
EveryOrigin(v, o) ==
    /\ v.origin = o
    /\ CASE v.kind.vk = "Table" ->
                \A i \in DOMAIN v.kind.val : EveryOrigin(v.kind.val[i][2], o)
         [] v.kind.vk = "Array" ->
                \A i \in DOMAIN v.kind.val : EveryOrigin(v.kind.val[i], o)
         [] OTHER -> TRUE

RECURSIVE Depth(_)
\* the number of nodes on the longest path of a Value tree
Depth(v) ==
    LET below ==
            CASE v.kind.vk = "Table" -> {Depth(v.kind.val[i][2]) : i \in DOMAIN v.kind.val}
              [] v.kind.vk = "Array" -> {Depth(v.kind.val[i]) : i \in DOMAIN v.kind.val}
              [] OTHER -> {}
    IN  IF below = {} THEN 1 ELSE 1 + CHOOSE d \in below : \A e \in below : e <= d

\* C3: every node of the tree from_parsed_value returns carries the origin
\* given to the call (absent when none was given).
C3_OriginEverywhere == Normalized => EveryOrigin(value, uri)

C3_Witness ==
    /\ Normalized
    /\ entry = "normalize"
    /\ uri = <<"settings.yaml">>
    /\ parsed.pk = "Array"
    /\ Depth(value) = 3
    /\ \E i \in DOMAIN parsed.pv : parsed.pv[i].pk = "Option" /\ parsed.pv[i].pv # <<>>

FromU64 == entry = "parse" /\ content.ct = "U64" /\ pc \in {"value", "done"}

\* C4 as stated: an unsigned 64-bit integer input ends up as ValueKind U64
\* with the same value.
C4_U64StaysU64 ==
    FromU64 => value.kind.vk = "U64" /\ value.kind.val = content.cv

\* C4 amended: an unsigned 64-bit integer input keeps its value and is
\* never a Float, and its kind is the first variant in probe order that
\* holds it: I64 up to 2^63-1, above that I128 where the buffered input
\* forwards 128-bit requests and U64 where it does not.
C4_U64FirstFit ==
    FromU64 =>
        /\ value.kind.val = content.cv
        /\ value.kind.vk # "Float"
        /\ value.kind.vk =
              IF MagLeq(content.cv.mag, I64MaxMag) THEN "I64"
              ELSE IF build.int128 THEN "I128"
              ELSE "U64"

C4_Witness ==
    /\ FromU64
    /\ content.cv.mag = I64MinMag
    /\ ~build.int128
    /\ value.kind.vk = "U64"

\* the probe order the variants are documented to have
FixedOrder ==
    <<"Boolean", "I64", "I128", "U64", "U128", "Float", "String", "Table",
      "Array", "Option", "Nil">>

Position(name) == CHOOSE i \in DOMAIN FixedOrder : FixedOrder[i] = name

NativeMapping ==
    /\ entry = "parse"
    /\ build.yaml
    /\ content.ct = "Map"
    /\ \E i \in DOMAIN content.cv : content.cv[i][1].ct # "Str"

KeyIsText(k) == IsInt(k) \/ k.ct \in {"F64", "Str"}

\* C6: every entry of a native mapping with numeric and string keys is in
\* the table, under the text of its key and with its own re-probed value.
C6_EveryEntryKept ==
    (/\ NativeMapping
     /\ pc = "parsed"
     /\ \A i \in DOMAIN content.cv : KeyIsText(content.cv[i][1])) =>
        /\ parsed.pk = "Table"
        /\ \A i \in DOMAIN content.cv :
              /\ HasKey(parsed.pv, YamlKey(content.cv[i][1])[1])
              /\ MapGet(parsed.pv, YamlKey(content.cv[i][1])[1])
                    = Deserialize(build, YamlValue(content.cv[i][2])).out

\* C7: a native mapping with a key that is neither a number nor a string,
\* or with a value the probe does not take, makes the parse fail with a
\* deserialization error.
C7_BadMappingFails ==
    (/\ NativeMapping
     /\ pc # "content"
     /\ \E i \in DOMAIN content.cv :
           \/ ~KeyIsText(content.cv[i][1])
           \/ Deserialize(build, YamlValue(content.cv[i][2])).st = "err") =>
        pc = "failed"

RECURSIVE Embed(_)
\* a Value written back as the ParsedValue variant named like its kind
Embed(v) ==
    CASE v.kind.vk = "Table" ->
            P("Table", [i \in DOMAIN v.kind.val |->
                           <<v.kind.val[i][1], Embed(v.kind.val[i][2])>>])
      [] v.kind.vk = "Array" ->
            P("Array", [i \in DOMAIN v.kind.val |-> Embed(v.kind.val[i])])
      [] OTHER -> P(v.kind.vk, v.kind.val)

\* C8: normalizing again what from_parsed_value returned gives the same
\* tree: kinds, payloads, key order and origins.
C8_Idempotent == Normalized => from_parsed_value(uri, Embed(value)) = value

C8_Witness ==
    /\ Normalized
    /\ entry = "normalize"
    /\ uri = <<"settings.yaml">>
    /\ parsed.pk = "Table"
    /\ Len(parsed.pv) = 2
    /\ parsed.pv[1][2].pk = "Option"
    /\ parsed.pv[2][2].pk = "Array"
    /\ Embed(value) # parsed

RECURSIVE OptionFree(_)
OptionFree(p) ==
    CASE p.pk = "Option" -> FALSE
      [] p.pk = "Table" -> \A i \in DOMAIN p.pv : OptionFree(p.pv[i][2])
      [] p.pk = "Array" -> \A i \in DOMAIN p.pv : OptionFree(p.pv[i])
      [] OTHER -> TRUE

RECURSIVE SameShape(_, _)
\* v is p node for node: same variant, same scalar, same keys in the same
\* order, same length
SameShape(p, v) ==
    /\ v.kind.vk = p.pk
    /\ CASE p.pk = "Table" ->
                /\ Len(v.kind.val) = Len(p.pv)
                /\ \A i \in DOMAIN p.pv :
                      /\ v.kind.val[i][1] = p.pv[i][1]
                      /\ SameShape(p.pv[i][2], v.kind.val[i][2])
         [] p.pk = "Array" ->
                /\ Len(v.kind.val) = Len(p.pv)
                /\ \A i \in DOMAIN p.pv : SameShape(p.pv[i], v.kind.val[i])
         [] OTHER -> v.kind.val = p.pv

\* C9: on a tree without Option, from_parsed_value returns a Value of the
\* same shape: each scalar under the kind of its name with its payload,
\* each table with its keys in order, each array with its elements in
\* order.
C9_ShapePreserved == (Normalized /\ OptionFree(parsed)) => SameShape(parsed, value)

C9_Witness ==
    /\ Normalized
    /\ entry = "normalize"
    /\ OptionFree(parsed)
    /\ parsed.pk = "Table"
    /\ Len(parsed.pv) = 2
    /\ parsed.pv[1][1] = "x"
    /\ parsed.pv[1][2].pk = "Table"
    /\ parsed.pv[2][2].pk = "U64"

RECURSIVE Strip(_)
\* the tree with every Option wrapper removed: an absent one is Nil, a
\* present one is its content
Strip(p) ==
    CASE p.pk = "Option" -> IF p.pv = <<>> THEN PNil ELSE Strip(p.pv[1])
      [] p.pk = "Table" -> P("Table", [i \in DOMAIN p.pv |-> <<p.pv[i][1], Strip(p.pv[i][2])>>])
      [] p.pk = "Array" -> P("Array", [i \in DOMAIN p.pv |-> Strip(p.pv[i])])
      [] OTHER -> p

\* C10: an absent Option is Nil, a present one has the kind of its content,
\* and the whole result is that of the input without its Option wrappers.
C10_OptionErased ==
    Normalized =>
        /\ value = from_parsed_value(uri, Strip(parsed))
        /\ SameShape(Strip(parsed), value)
        /\ parsed = POption(<<>>) => value.kind.vk = "Nil"
        /\ (parsed.pk = "Option" /\ parsed.pv # <<>>) =>
              value.kind = from_parsed_value(uri, parsed.pv[1]).kind

C10_Witness ==
    /\ Normalized
    /\ parsed = POption(<<POption(<<>>)>>)
    /\ value.kind.vk = "Nil"

====
